---- MODULE Spec2Model ----
(***************************************************************************)
(* A model of MCPTransport (client-streamlit/mcp_client/transport.py): the *)
(* SSE receive loop started by connect_sse, the blocking call_tool path    *)
(* (_enqueue_and_wait), the subscription / cancellation registry and the   *)
(* connection state shared between the receive loop and caller threads.    *)
(*                                                                         *)
(* Threads of the model                                                    *)
(*   - receive loops  t \in Threads : one per threading.Thread started by  *)
(*     connect_sse; loop[t].pc is the position inside _run.                *)
(*   - synchronous callers c \in Callers : one call_tool each.             *)
(*   - the UI thread: runs connect_sse / disconnect_sse statement by       *)
(*     statement (ui.pc) and the one-statement operations on_message,      *)
(*     off_message, cancel, call_tool_async.                               *)
(* A step of the model is one access to shared state; the blocks guarded   *)
(* by `with self._lock` are one step each, since every access to _pending  *)
(* happens inside such a block.                                            *)
(***************************************************************************)
EXTENDS Integers, Sequences, FiniteSets, TLC

VARIABLES
    connected,          \* self._connected
    ready,              \* self._ready
    resolved_post_url,  \* self._resolved_post_url
    stop,               \* self._stop (threading.Event): TRUE when set
    thread,             \* self._thread: {} for None, {t} for the Thread object
    last_event,         \* self._last_event
    pending,            \* self._pending: request id -> waiter (named by its caller)
    waiter,             \* the waiter dicts: caller -> [set, result, error]
    callbacks,          \* self._callbacks: request id -> callback
    canceled,           \* self._canceled
    loop,               \* receive loops: thread -> [pc, ev, k]
    caller,             \* synchronous callers: caller -> [pc, id, status, ok, ret, fresh]
    ui,                 \* the UI thread: [pc, held]
    posted,             \* request ids the server has received in a POST
    hist                \* history of the run, read by the properties only

vars == <<connected, ready, resolved_post_url, stop, thread, last_event, pending,
          waiter, callbacks, canceled, loop, caller, ui, posted, hist>>

-----------------------------------------------------------------------------
(* Bounds of the model *)

\* External inputs in one run: operations the UI thread starts (connect_sse,
\* disconnect_sse, on_message, off_message, cancel), stream events the
\* receive loops read, and calls that generate a request id (call_tool,
\* call_tool_async).
MaxInputs == 4

\* The largest `tries` wait_until_ready is called with.
MaxTries == 2

-----------------------------------------------------------------------------
(* Python values *)

None == [t |-> "None"]
Str(s) == [t |-> "str", s |-> s]
Dict(p) == [t |-> "dict", d |-> p]
PyInt(i) == [t |-> "int", i |-> i]

\* bool(x) for the values that reach a truth test in the transport
Truthy(x) == x /= None /\ x /= Str("") /\ x /= PyInt(0)

\* uuid.uuid4() of the k-th synchronous call: fresh, non-empty, never repeated
UuidNames == <<"u1", "u2", "u3", "u4", "u5", "u6">>
Uuid(k) == Str(UuidNames[k])


SSE_EVENT_ENDPOINT == "endpoint"
SSE_EVENT_MESSAGE == "message"
SSE_EVENT_PROGRESS == "progress"

\* the stream URL and the fallback POST URL the transport is built with
sse_url == [scheme |-> "http", netloc |-> "host:3000", path |-> "/sse"]
post_url == [scheme |-> "http", netloc |-> "host:3000", path |-> "/messages"]

EndpointPaths == {"/messages?sessionId=abc"}

\* urljoin(scheme://netloc, path) for an absolute path on the stream's origin
resolve_post_url(endpoint_path) ==
    [scheme |-> sse_url.scheme, netloc |-> sse_url.netloc, path |-> endpoint_path]

ErrDisconnected == [t |-> "dict", code |-> -1, message |-> "SSE disconnected"]
ErrTimeout(status) ==
    [t |-> "dict", code |-> -2, message |-> "timeout waiting SSE message",
     http_status |-> status]

\* res.status_code of the submission: 202 Accepted is the normal answer
HttpStatuses == {PyInt(202)}

-----------------------------------------------------------------------------
(* Stream events *)

\* json.loads(ev.data) of a message/progress event, when it is an object:
\* "id" (None when the key is missing), and the "error" / "result" members.
Payloads(ids) ==
    [id : ids, has_error : {FALSE}, error : {None}, has_result : {TRUE},
     result : {Str("r1"), PyInt(0)}]
    \cup [id : ids, has_error : {TRUE}, error : {Str("e1")}, has_result : {FALSE},
          result : {None}]
    \cup [id : ids, has_error : {FALSE}, error : {None}, has_result : {FALSE},
          result : {None}]

NoPayload == [id |-> None]

\* An SSE event: ev.event, and ev.data described by what json.loads / strip make
\* of it: "path" (an endpoint path), "object" (a JSON object), "invalid" (not
\* JSON, or JSON that is no object) and "empty" (the empty string).
Events(ids) ==
    [event : {SSE_EVENT_ENDPOINT}, data : {"path"}, path : EndpointPaths,
     payload : {NoPayload}]
    \cup [event : {SSE_EVENT_MESSAGE}, data : {"object"}, path : {""},
          payload : {p \in Payloads(ids) : p.has_result \/ p.has_error}]
    \cup [event : {SSE_EVENT_PROGRESS}, data : {"object"}, path : {""},
          payload : {p \in Payloads(ids) : ~p.has_result /\ ~p.has_error}]
    \cup [event : {SSE_EVENT_MESSAGE}, data : {"invalid"}, path : {""},
          payload : {NoPayload}]
    \cup [event : {"ping"}, data : {"empty"}, path : {""}, payload : {NoPayload}]

NoEvent == [event |-> "", data |-> "empty", path |-> "", payload |-> NoPayload]

(* The history variable hist records, for the properties:                  *)
(*   inputs    the number of UI operations and stream events so far        *)
(*   read_log  the message/progress events with a JSON object as body that *)
(*             passed the stop check, in the order read: [t, payload, sub, *)
(*             canc] with sub whether a callback was registered for the    *)
(*             id, and canc whether the id was in _canceled, when the      *)
(*             event was read; loop[t].k is the place in read_log of the   *)
(*             event t is dispatching                                      *)
(*   sets      per waiter, the Event.set() calls made on it: [by, k] with  *)
(*             by "event" (k its place in read_log) or "teardown"          *)
(*   cb_log    the callback invocations: [k, cb, payload]                  *)
(*   removed   the ids off_message has removed                             *)
(*   epoch     the number of receive loops that had been started when the  *)
(*             latest disconnect_sse was invoked (0 when there was none):  *)
(*             the loops t > epoch belong to the current connection        *)
(* and ui.held the callers that were in _pending when the disconnect_sse   *)
(* in progress was invoked, caller[c].fresh whether call c registered its   *)
(* entry after the connect_sse that followed the latest disconnect_sse.    *)

\* {"event": ev.event, "data": ev.data}
LastEventOf(ev) == Dict([event |-> ev.event, data |-> ev.data])

-----------------------------------------------------------------------------
(* Initial state: MCPTransport.__init__ *)

NewWaiter == [set |-> FALSE, result |-> None, error |-> None]

\* dict[k] = v and dict.pop(k, None)
Put(f, k, v) == [x \in DOMAIN f \cup {k} |-> IF x = k THEN v ELSE f[x]]
Remove(f, k) == [x \in DOMAIN f \ {k} |-> f[x]]

\* the callbacks a caller may register
Callbacks == {"cb1"}

Init ==
    /\ connected = FALSE
    /\ ready = FALSE
    /\ resolved_post_url = None
    /\ stop = FALSE
    /\ thread = {}
    /\ last_event = None
    /\ pending = <<>>
    /\ waiter = <<>>
    /\ callbacks = <<>>
    /\ canceled = {}
    /\ loop = <<>>
    /\ caller = <<>>
    /\ ui = [pc |-> "idle", held |-> {}]
    /\ posted = {}
    /\ hist = [inputs |-> 0, sets |-> <<>>, read_log |-> <<>>, cb_log |-> <<>>,
               removed |-> {}, epoch |-> 0]

\* the receive-loop threads started so far, and the request ids generated so far
Threads == DOMAIN loop
Callers == DOMAIN caller

\* the external inputs so far
Inputs == hist.inputs + Len(caller)

\* a connect_sse has started a receive loop since the latest disconnect_sse
Reconnected == hist.epoch > 0 /\ \E t \in Threads : t > hist.epoch

\* lines 136-137: self._ready and bool(self._resolved_post_url)
is_ready == ready /\ Truthy(resolved_post_url)

-----------------------------------------------------------------------------
(* The receive loop: connect_sse._run *)

\* mutant: the subscriber is looked up only when no waiter was found (`elif`)
CallbacksGetUnlessWaiter(rpc_id) ==
    IF rpc_id \in DOMAIN callbacks /\ rpc_id \notin DOMAIN pending
    THEN {callbacks[rpc_id]} ELSE {}

\* line 98: self._callbacks.get(rpc_id), as the set of callbacks found
CallbacksGet(rpc_id) == IF rpc_id \in DOMAIN callbacks THEN {callbacks[rpc_id]} ELSE {}

Goto(t, pc) == loop' = [loop EXCEPT ![t].pc = pc]
GotoWith(t, pc, ev, k) == loop' = [loop EXCEPT ![t] = [pc |-> pc, ev |-> ev, k |-> k]]

\* lines 65-68: the GET succeeded, raise_for_status passed
StreamOpened(t) ==
    /\ loop[t].pc = "open"
    /\ connected' = TRUE
    /\ Goto(t, "next")
    /\ UNCHANGED <<ready, resolved_post_url, stop, thread, last_event, pending,
                   waiter, callbacks, canceled, caller, ui, posted, hist>>

\* lines 65-66: the GET or raise_for_status raised; control goes to `finally`
StreamOpenFailed(t) ==
    /\ loop[t].pc = "open"
    /\ Goto(t, "fin111")
    /\ UNCHANGED <<connected, ready, resolved_post_url, stop, thread, last_event,
                   pending, waiter, callbacks, canceled, caller, ui, posted, hist>>

\* line 69: client.events() ends, or reading it raises; control goes to `finally`
StreamEnded(t) ==
    /\ loop[t].pc = "next"
    /\ Goto(t, "fin111")
    /\ UNCHANGED <<connected, ready, resolved_post_url, stop, thread, last_event,
                   pending, waiter, callbacks, canceled, caller, ui, posted, hist>>

\* ids the server can put in an event: the empty string, or one it was sent
EventIds == {Str("")} \cup posted

\* a message or progress event whose body is a JSON object (with an "id")
CarriesId(ev) ==
    ev.event \in {SSE_EVENT_MESSAGE, SSE_EVENT_PROGRESS} /\ ev.data = "object"

\* mutant: progress events are not dispatched
ClassifyMessageOnly(ev) ==
    IF ev.event = SSE_EVENT_ENDPOINT /\ ev.data /= "empty" THEN "ep74"
    ELSE IF ev.event = SSE_EVENT_MESSAGE /\ ev.data /= "empty"
         THEN (IF ev.data = "object" THEN "chk83" ELSE "except105")
         ELSE "skip"

\* lines 73 and 77: where an event that passed the stop check goes
Classify(ev) ==
    IF ev.event = SSE_EVENT_ENDPOINT /\ ev.data /= "empty" THEN "ep74"
    ELSE IF ev.event \in {SSE_EVENT_MESSAGE, SSE_EVENT_PROGRESS} /\ ev.data /= "empty"
         THEN (IF ev.data = "object" THEN "chk83" ELSE "except105")
         ELSE "skip"

\* mutant: there is no `except` around the handling of a message; what it
\* raises leaves the loop
Unhandled(t, ev) == Goto(t, "fin111") /\ UNCHANGED last_event

\* lines 105-108: json.loads (or .get on a body that is no object) raised; the
\* exception is swallowed and the event becomes _last_event
Swallowed(t, ev) == Goto(t, "next") /\ last_event' = LastEventOf(ev)

\* lines 69-80 and 105-108: the stream yields ev; `break` when _stop is set;
\* otherwise the event is classified and, for a message, parsed. An event that
\* is not dispatched (unknown kind, empty data, a body json.loads or .get
\* rejects) only becomes _last_event.
ReadEvent(t, ev) ==
    /\ loop[t].pc = "next"
    /\ Inputs < MaxInputs
    /\ IF stop
       THEN /\ Goto(t, "fin111")
            /\ UNCHANGED last_event
            /\ hist' = [hist EXCEPT !.inputs = @ + 1]
       ELSE /\ hist' = [hist EXCEPT !.inputs = @ + 1,
                                    !.read_log = IF CarriesId(ev)
                                                 THEN Append(@, [t |-> t, payload |-> ev.payload,
                                                                 sub |-> ev.payload.id \in DOMAIN callbacks,
                                                                 canc |-> ev.payload.id \in canceled])
                                                 ELSE @]
            /\ IF Classify(ev) \in {"ep74", "chk83"}
               THEN GotoWith(t, Classify(ev), ev,
                             IF CarriesId(ev) THEN Len(hist.read_log) + 1 ELSE 0)
                    /\ UNCHANGED last_event
               ELSE IF Classify(ev) = "except105"
                    THEN Swallowed(t, ev)
                    ELSE Goto(t, "next") /\ last_event' = LastEventOf(ev)
    /\ UNCHANGED <<connected, ready, resolved_post_url, stop, thread, pending,
                   waiter, callbacks, canceled, caller, ui, posted>>

\* line 74
Endpoint74(t) ==
    /\ loop[t].pc = "ep74"
    /\ resolved_post_url' = resolve_post_url(loop[t].ev.path)
    /\ Goto(t, "ep75")
    /\ UNCHANGED <<connected, ready, stop, thread, last_event, pending, waiter,
                   callbacks, canceled, caller, ui, posted, hist>>

\* lines 75 and 108
Endpoint75(t) ==
    /\ loop[t].pc = "ep75"
    /\ ready' = TRUE
    /\ last_event' = LastEventOf(loop[t].ev)
    /\ GotoWith(t, "next", NoEvent, 0)
    /\ UNCHANGED <<connected, resolved_post_url, stop, thread, pending, waiter,
                   callbacks, canceled, caller, ui, posted, hist>>

\* line 83: `rpc_id and rpc_id in self._canceled`
IsCanceled(rpc_id, cs) == Truthy(rpc_id) /\ rpc_id \in cs

\* lines 83-84: a cancelled id is dropped by `continue`, which also skips line 108
CancelCheck(t) ==
    /\ loop[t].pc = "chk83"
    /\ IF IsCanceled(loop[t].ev.payload.id, canceled)
       THEN GotoWith(t, "next", NoEvent, 0)
       ELSE Goto(t, "w87")
    /\ UNCHANGED <<connected, ready, resolved_post_url, stop, thread, last_event,
                   pending, waiter, callbacks, canceled, caller, ui, posted, hist>>

\* lines 90-95: what a matching event writes into the waiter
Deliver(w, payload) ==
    IF payload.has_error
    THEN [w EXCEPT !.error = payload.error, !.set = TRUE]
    ELSE [w EXCEPT !.result = IF Truthy(payload.result) THEN payload.result
                              ELSE Dict(payload),
                   !.set = TRUE]

\* mutant: a matching event releases every pending waiter
PendingGetAll(rpc_id) ==
    IF rpc_id \in DOMAIN pending THEN {pending[k] : k \in DOMAIN pending} ELSE {}

\* line 88: self._pending.get(rpc_id), as the set of waiters found (none or one)
PendingGet(rpc_id) == IF rpc_id \in DOMAIN pending THEN {pending[rpc_id]} ELSE {}

\* lines 87-95, under _lock
WaiterSection(t) ==
    LET payload == loop[t].ev.payload
        found == PendingGet(payload.id)
    IN  /\ loop[t].pc = "w87"
        /\ waiter' = [c \in Callers |->
                         IF c \in found THEN Deliver(waiter[c], payload) ELSE waiter[c]]
        /\ hist' = [hist EXCEPT
                      !.sets = [c \in Callers |->
                                   IF c \in found
                                   THEN Append(@[c], [by |-> "event", k |-> loop[t].k])
                                   ELSE @[c]]]
        /\ Goto(t, "cb98")
        /\ UNCHANGED <<connected, ready, resolved_post_url, stop, thread, last_event,
                       pending, callbacks, canceled, caller, ui, posted>>

\* lines 98-103 and 108: the callback, when there is one, is called with the
\* payload; whether it returns or raises (lines 102-103 swallow the exception)
\* the loop goes on to line 108 and the event becomes _last_event
CallbackSection(t) ==
    LET payload == loop[t].ev.payload
    IN  /\ loop[t].pc = "cb98"
        /\ hist' = [hist EXCEPT
                      !.cb_log = @ \o [i \in 1..Cardinality(CallbacksGet(payload.id)) |->
                                         [k |-> loop[t].k,
                                          cb |-> CHOOSE cb \in CallbacksGet(payload.id) : TRUE,
                                          payload |-> payload]]]
        /\ last_event' = LastEventOf(loop[t].ev)
        /\ GotoWith(t, "next", NoEvent, 0)
        /\ UNCHANGED <<connected, ready, resolved_post_url, stop, thread, pending,
                       waiter, callbacks, canceled, caller, ui, posted>>

\* line 111
Finally111(t) ==
    /\ loop[t].pc = "fin111"
    /\ connected' = FALSE
    /\ Goto(t, "fin112")
    /\ UNCHANGED <<ready, resolved_post_url, stop, thread, last_event, pending,
                   waiter, callbacks, canceled, caller, ui, posted, hist>>

\* line 112
Finally112(t) ==
    /\ loop[t].pc = "fin112"
    /\ ready' = FALSE
    /\ Goto(t, "fin113")
    /\ UNCHANGED <<connected, resolved_post_url, stop, thread, last_event, pending,
                   waiter, callbacks, canceled, caller, ui, posted, hist>>

\* line 113
Finally113(t) ==
    /\ loop[t].pc = "fin113"
    /\ resolved_post_url' = None
    /\ Goto(t, "fin114")
    /\ UNCHANGED <<connected, ready, stop, thread, last_event, pending, waiter,
                   callbacks, canceled, caller, ui, posted, hist>>

\* mutant: the teardown stores the error and does not set the Event
DisconnectErrorOnly(w) == [w EXCEPT !.error = ErrDisconnected]

\* lines 116-117: what the teardown writes into a waiter
Disconnect(w) == [w EXCEPT !.error = ErrDisconnected, !.set = TRUE]

\* the waiters self._pending.values() yields
PendingValues == {pending[k] : k \in DOMAIN pending}

\* mutant: the teardown also drops the subscriptions
Finally114ClearingCallbacks(t) ==
    /\ loop[t].pc = "fin114"
    /\ waiter' = [c \in Callers |->
                     IF c \in PendingValues THEN Disconnect(waiter[c]) ELSE waiter[c]]
    /\ hist' = [hist EXCEPT
                  !.sets = [c \in Callers |->
                               IF c \in PendingValues
                               THEN Append(@[c], [by |-> "teardown", k |-> 0])
                               ELSE @[c]]]
    /\ pending' = <<>>
    /\ callbacks' = <<>>
    /\ Goto(t, "dead")
    /\ UNCHANGED <<connected, ready, resolved_post_url, stop, thread, last_event,
                   canceled, caller, ui, posted>>

\* lines 114-118, under _lock; the thread ends
Finally114(t) ==
    /\ loop[t].pc = "fin114"
    /\ waiter' = [c \in Callers |->
                     IF c \in PendingValues THEN Disconnect(waiter[c]) ELSE waiter[c]]
    /\ hist' = [hist EXCEPT
                  !.sets = [c \in Callers |->
                               IF c \in PendingValues
                               THEN Append(@[c], [by |-> "teardown", k |-> 0])
                               ELSE @[c]]]
    /\ pending' = <<>>
    /\ Goto(t, "dead")
    /\ UNCHANGED <<connected, ready, resolved_post_url, stop, thread, last_event,
                   callbacks, canceled, caller, ui, posted>>

-----------------------------------------------------------------------------
(* The UI thread: connect_sse, disconnect_sse and the registry operations *)

\* request ids the UI thread can pass to on_message / off_message / cancel: the
\* empty string and the ids generated so far
RequestIds == {Str("")} \cup {caller[c].id : c \in Callers}

UiGoto(pc) == ui' = [ui EXCEPT !.pc = pc]
CountOp == hist' = [hist EXCEPT !.inputs = @ + 1]

\* lines 57-58: already connected, return True
ConnectNoop ==
    /\ ui.pc = "idle"
    /\ Inputs < MaxInputs
    /\ connected
    /\ CountOp
    /\ UNCHANGED <<connected, ready, resolved_post_url, stop, thread, last_event,
                   pending, waiter, callbacks, canceled, loop, caller, ui, posted>>

\* line 57: not connected, go on
Connect57 ==
    /\ ui.pc = "idle"
    /\ Inputs < MaxInputs
    /\ ~connected
    /\ CountOp
    /\ UiGoto("c59")
    /\ UNCHANGED <<connected, ready, resolved_post_url, stop, thread, last_event,
                   pending, waiter, callbacks, canceled, loop, caller, posted>>

\* line 59
Connect59 ==
    /\ ui.pc = "c59"
    /\ stop' = FALSE
    /\ UiGoto("c60")
    /\ UNCHANGED <<connected, ready, resolved_post_url, thread, last_event, pending,
                   waiter, callbacks, canceled, loop, caller, posted, hist>>

\* line 60
Connect60 ==
    /\ ui.pc = "c60"
    /\ ready' = FALSE
    /\ UiGoto("c61")
    /\ UNCHANGED <<connected, resolved_post_url, stop, thread, last_event, pending,
                   waiter, callbacks, canceled, loop, caller, posted, hist>>

\* line 61
Connect61 ==
    /\ ui.pc = "c61"
    /\ resolved_post_url' = None
    /\ UiGoto("c120")
    /\ UNCHANGED <<connected, ready, stop, thread, last_event, pending, waiter,
                   callbacks, canceled, loop, caller, posted, hist>>

\* lines 120-122: a new Thread running _run is stored in _thread and started
Connect120 ==
    /\ ui.pc = "c120"
    /\ thread' = {Len(loop) + 1}
    /\ loop' = Append(loop, [pc |-> "open", ev |-> NoEvent, k |-> 0])
    /\ UiGoto("idle")
    /\ UNCHANGED <<connected, ready, resolved_post_url, stop, last_event, pending,
                   waiter, callbacks, canceled, caller, posted, hist>>

\* line 125
Disconnect125 ==
    /\ ui.pc = "idle"
    /\ Inputs < MaxInputs
    /\ stop' = TRUE
    /\ hist' = [hist EXCEPT !.inputs = @ + 1, !.epoch = Len(loop)]
    /\ ui' = [pc |-> "d126", held |-> {pending[k] : k \in DOMAIN pending}]
    /\ caller' = [c \in Callers |-> [caller[c] EXCEPT !.fresh = FALSE]]
    /\ UNCHANGED <<connected, ready, resolved_post_url, thread, last_event, pending,
                   waiter, callbacks, canceled, loop, posted>>

\* self._thread and self._thread.is_alive()
ThreadAlive == \E t \in thread : loop[t].pc /= "dead"

\* lines 126-128: there is no live thread, or join returns because it ended
JoinReturned ==
    /\ ui.pc = "d126"
    /\ ~ThreadAlive
    /\ thread' = {}
    /\ UiGoto("d129")
    /\ UNCHANGED <<connected, ready, resolved_post_url, stop, last_event, pending,
                   waiter, callbacks, canceled, loop, caller, posted, hist>>

\* lines 126-128: join(timeout=2) gives up on a thread that is still running
JoinTimedOut ==
    /\ ui.pc = "d126"
    /\ ThreadAlive
    /\ thread' = {}
    /\ UiGoto("d129")
    /\ UNCHANGED <<connected, ready, resolved_post_url, stop, last_event, pending,
                   waiter, callbacks, canceled, loop, caller, posted, hist>>

\* line 129
Disconnect129 ==
    /\ ui.pc = "d129"
    /\ connected' = FALSE
    /\ UiGoto("d130")
    /\ UNCHANGED <<ready, resolved_post_url, stop, thread, last_event, pending,
                   waiter, callbacks, canceled, loop, caller, posted, hist>>

\* line 130
Disconnect130 ==
    /\ ui.pc = "d130"
    /\ ready' = FALSE
    /\ UiGoto("d131")
    /\ UNCHANGED <<connected, resolved_post_url, stop, thread, last_event, pending,
                   waiter, callbacks, canceled, loop, caller, posted, hist>>

\* line 131; disconnect_sse returns
Disconnect131 ==
    /\ ui.pc = "d131"
    /\ resolved_post_url' = None
    /\ ui' = [pc |-> "idle", held |-> {}]
    /\ UNCHANGED <<connected, ready, stop, thread, last_event, pending, waiter,
                   callbacks, canceled, loop, caller, posted, hist>>

\* line 203
on_message(request_id, callback) ==
    /\ ui.pc = "idle"
    /\ Inputs < MaxInputs
    /\ callbacks' = Put(callbacks, request_id, callback)
    /\ CountOp
    /\ UNCHANGED <<connected, ready, resolved_post_url, stop, thread, last_event,
                   pending, waiter, canceled, loop, caller, ui, posted>>

\* line 206
off_message(request_id) ==
    /\ ui.pc = "idle"
    /\ Inputs < MaxInputs
    /\ request_id \in DOMAIN callbacks
    /\ callbacks' = Remove(callbacks, request_id)
    /\ hist' = [hist EXCEPT !.inputs = @ + 1, !.removed = @ \cup {request_id}]
    /\ UNCHANGED <<connected, ready, resolved_post_url, stop, thread, last_event,
                   pending, waiter, canceled, loop, caller, ui, posted>>

\* line 210
cancel(request_id) ==
    /\ ui.pc = "idle"
    /\ Inputs < MaxInputs
    /\ request_id \notin canceled
    /\ canceled' = canceled \cup {request_id}
    /\ CountOp
    /\ UNCHANGED <<connected, ready, resolved_post_url, stop, thread, last_event,
                   pending, waiter, callbacks, loop, caller, ui, posted>>

\* lines 191-199 with request_id None: a fresh uuid is generated and the POST
\* carries it to the server; nothing of the transport's state changes
call_tool_async ==
    LET rpc_id == Uuid(Len(caller) + 1)
    IN  /\ ui.pc = "idle"
        /\ Inputs < MaxInputs
        /\ posted' = posted \cup {rpc_id}
        /\ caller' = Append(caller, [pc |-> "async", id |-> rpc_id, status |-> None,
                                      ok |-> FALSE, ret |-> None, fresh |-> Reconnected])
        /\ waiter' = Append(waiter, NewWaiter)
        /\ hist' = [hist EXCEPT !.sets = Append(@, <<>>)]
        /\ UNCHANGED <<connected, ready, resolved_post_url, stop, thread, last_event,
                       pending, callbacks, canceled, loop, ui>>

-----------------------------------------------------------------------------
(* A synchronous caller: call_tool -> _enqueue_and_wait *)

CallerGoto(c, pc) == caller' = [caller EXCEPT ![c].pc = pc]

\* lines 158-163: a fresh id, a fresh waiter, registered under _lock
Enqueue ==
    LET c == Len(caller) + 1
        rpc_id == Uuid(c)
    IN  /\ Inputs < MaxInputs
        /\ waiter' = Append(waiter, NewWaiter)
        /\ pending' = Put(pending, rpc_id, c)
        /\ caller' = Append(caller, [pc |-> "post", id |-> rpc_id, status |-> None,
                                      ok |-> FALSE, ret |-> None, fresh |-> Reconnected])
        /\ hist' = [hist EXCEPT !.sets = Append(@, <<>>)]
        /\ UNCHANGED <<connected, ready, resolved_post_url, stop, thread, last_event,
                       callbacks, canceled, loop, ui, posted>>

\* line 165: the POST is answered with a status
Post(c, status) ==
    /\ caller[c].pc = "post"
    /\ posted' = posted \cup {caller[c].id}
    /\ caller' = [caller EXCEPT ![c].pc = "wait", ![c].status = status]
    /\ UNCHANGED <<connected, ready, resolved_post_url, stop, thread, last_event,
                   pending, waiter, callbacks, canceled, loop, ui, hist>>

\* line 165: requests raises (no connection, timeout); the exception leaves
\* _enqueue_and_wait and call_tool
PostRaised(c) ==
    /\ caller[c].pc = "post"
    /\ CallerGoto(c, "raised")
    /\ UNCHANGED <<connected, ready, resolved_post_url, stop, thread, last_event,
                   pending, waiter, callbacks, canceled, loop, ui, posted, hist>>

\* line 168: the Event is set, wait returns True
WaitReleased(c) ==
    /\ caller[c].pc = "wait"
    /\ waiter[c].set
    /\ caller' = [caller EXCEPT ![c].pc = "pop", ![c].ok = TRUE]
    /\ UNCHANGED <<connected, ready, resolved_post_url, stop, thread, last_event,
                   pending, waiter, callbacks, canceled, loop, ui, posted, hist>>

\* mutant: a set() made before the wait began is missed
WaitTimedOutMissingSet(c) ==
    /\ caller[c].pc = "wait"
    /\ caller' = [caller EXCEPT ![c].pc = "pop", ![c].ok = FALSE]
    /\ UNCHANGED <<connected, ready, resolved_post_url, stop, thread, last_event,
                   pending, waiter, callbacks, canceled, loop, ui, posted, hist>>

\* line 168: timeout_sec passes with the Event not set, wait returns False
WaitTimedOut(c) ==
    /\ caller[c].pc = "wait"
    /\ ~waiter[c].set
    /\ caller' = [caller EXCEPT ![c].pc = "pop", ![c].ok = FALSE]
    /\ UNCHANGED <<connected, ready, resolved_post_url, stop, thread, last_event,
                   pending, waiter, callbacks, canceled, loop, ui, posted, hist>>

\* mutant: the outcome of wait() is ignored
ReturnValueIgnoringWait(ok, w, status) ==
    IF w.error /= None THEN [result |-> None, error |-> w.error]
    ELSE [result |-> w.result, error |-> None]

\* lines 172-176: the pair _enqueue_and_wait returns
ReturnValue(ok, w, status) ==
    IF ~ok THEN [result |-> None, error |-> ErrTimeout(status)]
    ELSE IF w.error /= None THEN [result |-> None, error |-> w.error]
    ELSE [result |-> w.result, error |-> None]

\* lines 169-176: the entry is popped under _lock and the pair is returned
PopAndReturn(c) ==
    /\ caller[c].pc = "pop"
    /\ pending' = Remove(pending, caller[c].id)
    /\ caller' = [caller EXCEPT
                    ![c].pc = "done",
                    ![c].ret = ReturnValue(caller[c].ok, waiter[c], caller[c].status)]
    /\ UNCHANGED <<connected, ready, resolved_post_url, stop, thread, last_event,
                   waiter, callbacks, canceled, loop, ui, posted, hist>>

-----------------------------------------------------------------------------

Next ==
    \/ \E t \in Threads : StreamOpened(t)
    \/ \E t \in Threads : StreamOpenFailed(t)
    \/ \E t \in Threads : StreamEnded(t)
    \/ \E t \in Threads : \E ev \in Events(EventIds) : ReadEvent(t, ev)
    \/ \E t \in Threads : Endpoint74(t)
    \/ \E t \in Threads : Endpoint75(t)
    \/ \E t \in Threads : CancelCheck(t)
    \/ \E t \in Threads : WaiterSection(t)
    \/ \E t \in Threads : CallbackSection(t)
    \/ \E t \in Threads : Finally111(t)
    \/ \E t \in Threads : Finally112(t)
    \/ \E t \in Threads : Finally113(t)
    \/ \E t \in Threads : Finally114(t)
    \/ ConnectNoop
    \/ Connect57
    \/ Connect59
    \/ Connect60
    \/ Connect61
    \/ Connect120
    \/ Disconnect125
    \/ JoinReturned
    \/ JoinTimedOut
    \/ Disconnect129
    \/ Disconnect130
    \/ Disconnect131
    \/ \E id \in RequestIds : \E cb \in Callbacks : on_message(id, cb)
    \/ \E id \in RequestIds : off_message(id)
    \/ \E id \in RequestIds : cancel(id)
    \/ call_tool_async
    \/ Enqueue
    \/ \E c \in Callers : \E status \in HttpStatuses : Post(c, status)
    \/ \E c \in Callers : PostRaised(c)
    \/ \E c \in Callers : WaitReleased(c)
    \/ \E c \in Callers : WaitTimedOut(c)
    \/ \E c \in Callers : PopAndReturn(c)

Spec == Init /\ [][Next]_vars

-----------------------------------------------------------------------------
(* wait_until_ready, polling the connection state                           *)
(*                                                                         *)
(* wait_until_ready reads _ready and _resolved_post_url and writes nothing. *)
(* It is run against everything that writes those two fields: connect_sse, *)
(* disconnect_sse and the receive loops' handshake and teardown.  While it *)
(* runs, ui carries its arguments and what it has seen: ui.tries, and      *)
(* ui.obs, the values is_ready() returned to the polls made so far; when   *)
(* it has returned, ui.ret is the value returned.                          *)

Tries == 0..MaxTries
WaitPcs == {"w140", "w137r", "w137u"}

\* line 139: wait_until_ready(tries) is called
wait_until_ready(tries) ==
    /\ ui.pc = "idle"
    /\ Inputs < MaxInputs
    /\ CountOp
    /\ ui' = [pc |-> "w140", held |-> {}, tries |-> tries, obs |-> <<>>]
    /\ UNCHANGED <<connected, ready, resolved_post_url, stop, thread, last_event,
                   pending, waiter, callbacks, canceled, loop, caller, posted>>

\* mutant: `while True` in place of `for _ in range(tries)`
Wait140Unbounded ==
    /\ ui.pc = "w140"
    /\ UiGoto("w137r")
    /\ UNCHANGED <<connected, ready, resolved_post_url, stop, thread, last_event,
                   pending, waiter, callbacks, canceled, loop, caller, posted, hist>>

\* lines 140 and 144: the next turn of `for _ in range(tries)`, or, after
\* `tries` turns, return False
Wait140 ==
    /\ ui.pc = "w140"
    /\ IF Len(ui.obs) < ui.tries
       THEN UiGoto("w137r")
       ELSE ui' = [pc |-> "wret", held |-> {}, tries |-> ui.tries, obs |-> ui.obs,
                   ret |-> FALSE]
    /\ UNCHANGED <<connected, ready, resolved_post_url, stop, thread, last_event,
                   pending, waiter, callbacks, canceled, loop, caller, posted, hist>>

\* lines 141, 137 and 143: is_ready() reads _ready; when it is false, `and`
\* returns it, and the turn ends with time.sleep(sleep_sec)
IsReady137r ==
    /\ ui.pc = "w137r"
    /\ IF ready
       THEN UiGoto("w137u")
       ELSE ui' = [ui EXCEPT !.pc = "w140", !.obs = Append(@, FALSE)]
    /\ UNCHANGED <<connected, ready, resolved_post_url, stop, thread, last_event,
                   pending, waiter, callbacks, canceled, loop, caller, posted, hist>>

\* lines 137 and 141-143: is_ready() reads _resolved_post_url and returns its
\* truth value; True makes wait_until_ready return True, False ends the turn
\* with time.sleep(sleep_sec)
IsReady137u ==
    /\ ui.pc = "w137u"
    /\ IF Truthy(resolved_post_url)
       THEN ui' = [pc |-> "wret", held |-> {}, tries |-> ui.tries,
                   obs |-> Append(ui.obs, TRUE), ret |-> TRUE]
       ELSE ui' = [ui EXCEPT !.pc = "w140", !.obs = Append(@, FALSE)]
    /\ UNCHANGED <<connected, ready, resolved_post_url, stop, thread, last_event,
                   pending, waiter, callbacks, canceled, loop, caller, posted, hist>>

\* the caller goes on with the value returned
WaitReturned ==
    /\ ui.pc = "wret"
    /\ ui' = [pc |-> "idle", held |-> {}]
    /\ UNCHANGED <<connected, ready, resolved_post_url, stop, thread, last_event,
                   pending, waiter, callbacks, canceled, loop, caller, posted, hist>>

\* the events of a stream that carries no message: the handshake and pings
HandshakeEvents == {ev \in Events({}) : ev.event \in {SSE_EVENT_ENDPOINT, "ping"}}

Polling == Wait140 \/ IsReady137r \/ IsReady137u

NextReady ==
    \/ \E t \in Threads : StreamOpened(t)
    \/ \E t \in Threads : StreamOpenFailed(t)
    \/ \E t \in Threads : StreamEnded(t)
    \/ \E t \in Threads : \E ev \in HandshakeEvents : ReadEvent(t, ev)
    \/ \E t \in Threads : Endpoint74(t)
    \/ \E t \in Threads : Endpoint75(t)
    \/ \E t \in Threads : Finally111(t)
    \/ \E t \in Threads : Finally112(t)
    \/ \E t \in Threads : Finally113(t)
    \/ \E t \in Threads : Finally114(t)
    \/ ConnectNoop
    \/ Connect57
    \/ Connect59
    \/ Connect60
    \/ Connect61
    \/ Connect120
    \/ Disconnect125
    \/ JoinReturned
    \/ JoinTimedOut
    \/ Disconnect129
    \/ Disconnect130
    \/ Disconnect131
    \/ \E tries \in Tries : wait_until_ready(tries)
    \/ Wait140
    \/ IsReady137r
    \/ IsReady137u
    \/ WaitReturned

\* time.sleep(sleep_sec) returns and the calling thread keeps running
SpecReady == Init /\ [][NextReady]_vars /\ WF_vars(Polling)

-----------------------------------------------------------------------------
(* Properties *)

\* the receive loops that have been started and have not ended
Live == {t \in Threads : loop[t].pc /= "dead"}

\* waiter c was set by the event at place k of read_log
SetByEvent(c, k) ==
    \E j \in DOMAIN hist.sets[c] : hist.sets[c][j] = [by |-> "event", k |-> k]

\* C1: an event whose id was never cancelled and that is dispatched while a
\* Pending Request Entry for its id exists releases exactly the waiter that
\* registered that id (every other waiter is left as it was), and the same
\* event is then passed to the callback registered for the id.
C1_WaiterAndSubscriber ==
    [][\A t \in Threads :
         LET payload == loop[t].ev.payload
             X == payload.id
         IN  /\ (/\ loop[t].pc = "w87" /\ loop'[t].pc = "cb98"
                 /\ X \in DOMAIN pending /\ X \notin canceled)
                => /\ caller[pending[X]].id = X
                   /\ waiter'[pending[X]].set
                   /\ hist'.sets[pending[X]] =
                        Append(hist.sets[pending[X]], [by |-> "event", k |-> loop[t].k])
                   /\ \A c \in Callers \ {pending[X]} :
                        waiter'[c] = waiter[c] /\ hist'.sets[c] = hist.sets[c]
             /\ (/\ loop[t].pc = "cb98" /\ loop'[t].pc = "next"
                 /\ X \in DOMAIN callbacks /\ X \notin canceled
                 /\ \E c \in Callers : SetByEvent(c, loop[t].k))
                => hist'.cb_log =
                     Append(hist.cb_log,
                            [k |-> loop[t].k, cb |-> callbacks[X], payload |-> payload])
      ]_vars

\* C1 witness: one event has both released a waiter and been passed to a callback
C1_Witness ==
    \E c \in Callers : \E i \in DOMAIN hist.cb_log : SetByEvent(c, hist.cb_log[i].k)

\* the callback invocations made for the event at place k of read_log
Invocations(k) == {i \in DOMAIN hist.cb_log : hist.cb_log[i].k = k}

\* C2: an event whose id cancel() had put in _canceled before the receive loop
\* began to handle it is delivered to nobody: it sets no waiter and reaches no
\* callback, whatever the id is.
C2_CanceledDeliveredToNobody ==
    \A k \in DOMAIN hist.read_log :
        hist.read_log[k].canc
        => /\ Invocations(k) = {}
           /\ \A c \in Callers : ~SetByEvent(c, k)

\* C3: when disconnect_sse returns, every entry that was pending when it was
\* invoked has been released with the disconnection error and is out of
\* _pending, _ready is false and _resolved_post_url is None.
C3_DisconnectReleasesAll ==
    [][(ui.pc = "d131" /\ ui'.pc = "idle")
       => /\ \A c \in ui.held :
               /\ caller[c].id \notin DOMAIN pending'
               /\ \E j \in DOMAIN hist'.sets[c] : hist'.sets[c][j].by = "teardown"
          /\ ~ready'
          /\ resolved_post_url' = None
      ]_vars

\* the pair a call returns on timeout
TimeoutReturn(c) == [result |-> None, error |-> ErrTimeout(caller[c].status)]

\* C4: every Pending Request Entry is released exactly once, by one of a
\* matching event, the caller's timeout and the teardown: its Event is set at
\* most once, a call that returned the timeout error was never set, and a call
\* that returned anything else was set exactly once.
C4_ReleasedExactlyOnce ==
    \A c \in Callers :
        /\ Len(hist.sets[c]) <= 1
        /\ caller[c].pc = "done"
           => IF caller[c].ret = TimeoutReturn(c)
              THEN hist.sets[c] = <<>>
              ELSE Len(hist.sets[c]) = 1

\* what call_tool returns when payload is the only event dispatched to its waiter
FirstEventAlone(c, payload) ==
    LET w == Deliver(NewWaiter, payload)
    IN  IF ~caller[c].ok THEN TimeoutReturn(c)
        ELSE IF w.error /= None THEN [result |-> None, error |-> w.error]
        ELSE [result |-> w.result, error |-> None]

\* C5: when only events were dispatched to a call's entry, the pair the call
\* returns is the one the first of them alone would have produced.
C5_FirstEventDecides ==
    \A c \in Callers :
        (/\ caller[c].pc = "done"
         /\ hist.sets[c] /= <<>>
         /\ \A j \in DOMAIN hist.sets[c] : hist.sets[c][j].by = "event")
        => caller[c].ret = FirstEventAlone(c, hist.read_log[hist.sets[c][1].k].payload)

\* the event at place k of read_log is no longer being dispatched
Completed(k) == \A t \in Threads : loop[t].k /= k

\* a callback was registered for the event's id when it was read, and the id
\* has not been cancelled or unsubscribed since
Subscribed(k) ==
    LET e == hist.read_log[k]
    IN  /\ e.sub
        /\ e.payload.id \notin canceled
        /\ e.payload.id \notin hist.removed

\* C6: every message/progress event read for an id whose callback stays
\* registered (and that is not cancelled) invokes the callback exactly once,
\* with the full payload; no event invokes it twice; and the invocations made
\* for one stream are in the order its events were read.
C6_EveryEventToSubscriber ==
    /\ \A k \in DOMAIN hist.read_log :
          /\ Cardinality(Invocations(k)) <= 1
          /\ (Subscribed(k) /\ Completed(k)) => Cardinality(Invocations(k)) = 1
    /\ \A i \in DOMAIN hist.cb_log :
          LET k == hist.cb_log[i].k
          IN  /\ k \in DOMAIN hist.read_log
              /\ hist.cb_log[i].payload = hist.read_log[k].payload
              /\ hist.cb_log[i].cb \in Callbacks
    /\ \A i, j \in DOMAIN hist.cb_log :
          (i < j /\ hist.read_log[hist.cb_log[i].k].t = hist.read_log[hist.cb_log[j].k].t)
          => hist.cb_log[i].k < hist.cb_log[j].k

\* C6 witness: two events of one id have both reached its callback
C6_Witness ==
    \E i, j \in DOMAIN hist.cb_log :
        /\ i < j
        /\ hist.cb_log[i].payload.id = hist.cb_log[j].payload.id
        /\ Subscribed(hist.cb_log[i].k) /\ Subscribed(hist.cb_log[j].k)

\* C7: a call whose waiter was never set (no event was dispatched to it and no
\* teardown reached it), or whose wait timed out, returns (None, the timeout
\* error carrying the status of its POST), and its id is then not in _pending.
C7_TimeoutReturn ==
    \A c \in Callers :
        (caller[c].pc = "done" /\ (hist.sets[c] = <<>> \/ ~caller[c].ok))
        => /\ caller[c].ret = [result |-> None,
                               error |-> [t |-> "dict", code |-> -2,
                                          message |-> "timeout waiting SSE message",
                                          http_status |-> caller[c].status]]
           /\ caller[c].status \in HttpStatuses
           /\ caller[c].id \notin DOMAIN pending

\* C7 witness: a call has returned with its waiter never set
C7_Witness ==
    \E c \in Callers : caller[c].pc = "done" /\ hist.sets[c] = <<>>

\* C8: however a synchronous call ends (a return, or the POST raising), its id
\* is no longer a key of _pending.
C8_NoStaleEntry ==
    \A c \in Callers :
        caller[c].pc \in {"done", "raised"} => caller[c].id \notin DOMAIN pending

\* C9: at most one receive loop is active at any time.
C9_AtMostOneLoop == Cardinality(Live) <= 1

\* C10: _ready implies that _resolved_post_url is not None.
C10_ReadyImpliesEndpoint == ready => resolved_post_url /= None

\* the receive loops of the current connection: those started since the
\* latest disconnect_sse
Current == {t \in Threads : t > hist.epoch}

\* C11: when a receive loop of the current connection handles an endpoint
\* event with path P, _resolved_post_url becomes scheme://host of the stream
\* URL with P and, the handshake done, is_ready() is true; and is_ready()
\* becomes true, while there is a current connection, only by the handshake of
\* one of its loops.
C11_HandshakeResolves ==
    [][/\ \A t \in Current :
            /\ (loop[t].pc = "ep74" /\ loop'[t].pc = "ep75")
               => resolved_post_url' = [scheme |-> "http", netloc |-> "host:3000",
                                        path |-> loop[t].ev.path]
            /\ (loop[t].pc = "ep75" /\ loop'[t].pc = "next") => is_ready'
       /\ (Current /= {} /\ ~is_ready /\ is_ready')
          => \E t \in Current : loop[t].pc \in {"ep74", "ep75"} /\ loop'[t] /= loop[t]
      ]_vars

\* C12: a call released by exactly one event returns (None, the payload's
\* error) when the payload has an error member, (the value of its result
\* member, None) when it has a result member and no error, whatever that value
\* is, and (the whole payload, None) when it has neither.
C12_PayloadToReturn ==
    \A c \in Callers :
        (/\ caller[c].pc = "done" /\ caller[c].ok
         /\ Len(hist.sets[c]) = 1 /\ hist.sets[c][1].by = "event")
        => LET payload == hist.read_log[hist.sets[c][1].k].payload
           IN  caller[c].ret =
                 IF payload.has_error THEN [result |-> None, error |-> payload.error]
                 ELSE IF payload.has_result
                      THEN [result |-> payload.result, error |-> None]
                      ELSE [result |-> Dict(payload), error |-> None]

\* C13: once connect_sse has returned after a disconnect_sse, _ready is false
\* and _resolved_post_url is None at that return, and no step of a receive
\* loop of an earlier connection changes _connected, _ready or
\* _resolved_post_url, or sets or removes a Pending Request Entry registered
\* after the new loop was started.
C13_FreshConnection ==
    [][/\ (hist.epoch > 0 /\ ui.pc = "c120" /\ ui'.pc = "idle")
          => ~ready' /\ resolved_post_url' = None
       /\ Reconnected
          => \A t \in Threads \ Current :
                loop'[t] /= loop[t]
                => /\ connected' = connected
                   /\ ready' = ready
                   /\ resolved_post_url' = resolved_post_url
                   /\ \A c \in Callers :
                         caller[c].fresh
                         => /\ waiter'[c] = waiter[c]
                            /\ caller[c].id \in DOMAIN pending
                               => caller[c].id \in DOMAIN pending'
      ]_vars

\* the positions of _run inside the `finally` block
TeardownPcs == {"fin111", "fin112", "fin113", "fin114"}

\* C14: _callbacks changes only by a step that is on_message (one key set) or
\* off_message (one key removed), a step of the caller thread that moves no
\* receive loop and no synchronous call; so connect_sse, disconnect_sse,
\* cancel, dispatch and teardown leave it unchanged; and no step of the
\* teardown invokes a callback.
C14_SubscriptionsCallerOwned ==
    [][/\ callbacks' /= callbacks
          => /\ ui.pc = "idle" /\ ui' = ui
             /\ loop' = loop /\ caller' = caller /\ pending' = pending
             /\ waiter' = waiter /\ canceled' = canceled
             /\ connected' = connected /\ ready' = ready /\ stop' = stop
             /\ \/ \E id \in RequestIds : \E cb \in Callbacks :
                      callbacks' = Put(callbacks, id, cb)
                \/ \E id \in DOMAIN callbacks : callbacks' = Remove(callbacks, id)
       /\ \A t \in Threads :
             (loop[t].pc \in TeardownPcs /\ loop'[t] /= loop[t])
             => hist'.cb_log = hist.cb_log
      ]_vars

\* C14 witness: a receive loop has finished its teardown, disconnect_sse has
\* run and returned, and a subscription is still there
C14_Witness ==
    /\ hist.epoch > 0
    /\ \E t \in Threads : loop[t].pc = "dead"
    /\ callbacks /= <<>>
    /\ ui.pc = "idle"

\* what call c returns when the event at place k of read_log alone releases it
EventReturn(c, k) ==
    ReturnValue(TRUE, Deliver(NewWaiter, hist.read_log[k].payload), caller[c].status)

\* C15: a call that has not submitted its request yet has already registered
\* its entry (which only a teardown can have removed); once an event has set
\* its waiter before the wait returned, the wait can only return True; and a
\* call whose wait returned True after events alone set its waiter returns the
\* result or error of one of them, not the timeout error.
C15_EventAfterSubmissionNotLost ==
    /\ [](\A c \in Callers :
            /\ caller[c].pc = "post"
               => /\ caller[c].id \notin posted
                  /\ \/ caller[c].id \in DOMAIN pending /\ pending[caller[c].id] = c
                     \/ \E j \in DOMAIN hist.sets[c] : hist.sets[c][j].by = "teardown"
            /\ (/\ caller[c].pc = "done" /\ caller[c].ok
                /\ \A j \in DOMAIN hist.sets[c] : hist.sets[c][j].by = "event")
               => /\ caller[c].ret /= TimeoutReturn(c)
                  /\ \E j \in DOMAIN hist.sets[c] :
                        caller[c].ret = EventReturn(c, hist.sets[c][j].k))
    /\ [][\A c \in Callers :
            (caller[c].pc = "wait" /\ waiter[c].set /\ caller'[c].pc /= "wait")
            => caller'[c].pc = "pop" /\ caller'[c].ok]_vars

\* C15 witness: an event set the waiter of a submitted call before its wait
\* returned, and the call has returned what the event carried
C15_Witness ==
    \E c \in Callers :
        /\ caller[c].pc = "done" /\ caller[c].ok
        /\ Len(hist.sets[c]) = 1 /\ hist.sets[c][1].by = "event"
        /\ caller[c].ret = EventReturn(c, hist.sets[c][1].k)

\* C16: a receive loop ends only through the four statements of the finally
\* block, taken in order from wherever it leaves the try block: they set
\* _connected False, _ready False, _resolved_post_url None and, in one locked
\* step, give every entry of _pending the disconnection error, set its Event
\* and empty _pending. When no other receive loop is running as the teardown
\* finishes, the three fields are then False, False and None. A loop whose
\* stream failed to open has not touched _connected.
C16_ExitRunsTeardown ==
    [][\A t \in Threads :
         loop'[t] /= loop[t]
         => /\ (loop[t].pc \notin TeardownPcs /\ loop'[t].pc \in TeardownPcs \cup {"dead"})
               => loop'[t].pc = "fin111" /\ connected' = connected
            /\ loop[t].pc = "fin111" => loop'[t].pc = "fin112" /\ ~connected'
            /\ loop[t].pc = "fin112" => loop'[t].pc = "fin113" /\ ~ready'
            /\ loop[t].pc = "fin113"
               => loop'[t].pc = "fin114" /\ resolved_post_url' = None
            /\ loop[t].pc = "fin114"
               => /\ loop'[t].pc = "dead"
                  /\ pending' = <<>>
                  /\ \A id \in DOMAIN pending :
                        /\ waiter'[pending[id]].set
                        /\ waiter'[pending[id]].error = ErrDisconnected
                  /\ Live = {t}
                     => ~connected' /\ ~ready' /\ resolved_post_url' = None
      ]_vars

\* C16 witness: every receive loop started has ended, and a teardown released
\* a pending call with the disconnection error
C16_Witness ==
    /\ Threads /= {} /\ Live = {}
    /\ \E c \in Callers :
          /\ hist.sets[c] = <<[by |-> "teardown", k |-> 0]>>
          /\ waiter[c].error = ErrDisconnected

\* the shared state other than _last_event is left as it was
OnlyLastEvent ==
    UNCHANGED <<connected, ready, resolved_post_url, stop, thread, pending, waiter,
                callbacks, canceled>>

\* C17: reading an event ends the receive loop only when _stop is set; the
\* step that calls the callback (which may raise) leaves _pending, _callbacks
\* and the connection state alone and returns the loop to where it reads the
\* next event; and an event whose body is not a JSON object, on becoming
\* _last_event, changes nothing else and leaves the loop where it reads the
\* next event.
C17_BadEventSwallowed ==
    [][/\ \A t \in Threads :
            /\ (loop[t].pc = "next" /\ loop'[t].pc = "fin111"
                /\ hist'.inputs /= hist.inputs) => stop
            /\ (loop[t].pc = "cb98" /\ loop'[t] /= loop[t])
               => /\ loop'[t] = [pc |-> "next", ev |-> NoEvent, k |-> 0]
                  /\ OnlyLastEvent
       /\ (/\ last_event' /= last_event
           /\ last_event' = Dict([event |-> "message", data |-> "invalid"]))
          => /\ \E t \in Threads : loop[t] = [pc |-> "next", ev |-> NoEvent, k |-> 0]
             /\ loop' = loop
             /\ OnlyLastEvent
      ]_vars

\* C17 witness: a loop has swallowed an unparseable event and is reading on
C17_Witness ==
    /\ last_event = Dict([event |-> "message", data |-> "invalid"])
    /\ \E t \in Threads : loop[t] = [pc |-> "next", ev |-> NoEvent, k |-> 0]
    /\ connected /\ ~stop

\* the positions whose statement is inside `with self._lock`: lines 87-95 and
\* 114-118 of _run, lines 169-170 of _enqueue_and_wait (and lines 162-163, the
\* step that appends a synchronous caller)
LockedLoopPcs == {"w87", "fin114"}
LockedCallerPcs == {"pop"}

\* the positions of _run whose statement reads or writes _canceled (line 83),
\* _pending (lines 88, 115-118) or _callbacks (line 98)
AccessLoopPcs == {"chk83", "w87", "cb98", "fin114"}

\* the step is one made while holding _lock
LockedStep ==
    \/ \E t \in Threads : loop[t].pc \in LockedLoopPcs /\ loop'[t] /= loop[t]
    \/ \E c \in Callers : caller[c].pc \in LockedCallerPcs /\ caller'[c].pc /= caller[c].pc
    \/ Len(caller') = Len(caller) + 1 /\ caller'[Len(caller')].pc = "post"

\* the step inserts into, removes from or looks up _pending, _callbacks or
\* _canceled
AccessStep ==
    \/ pending' /= pending
    \/ callbacks' /= callbacks
    \/ canceled' /= canceled
    \/ \E t \in Threads : loop[t].pc \in AccessLoopPcs /\ loop'[t] /= loop[t]

\* C18: every step that inserts into, removes from or looks up _pending,
\* _callbacks or _canceled is made while holding _lock.
C18_AllUnderLock == [][AccessStep => LockedStep]_vars

\* every value of the sequence is FALSE
AllFalse(obs) == \A i \in DOMAIN obs : ~obs[i]

\* C19: wait_until_ready(tries) never makes more than `tries` polls; it
\* returns True exactly when a poll saw is_ready() true, all polls before it
\* having seen false, and False exactly after `tries` polls that all saw
\* false; no step of it changes the connection state; and once called it
\* returns.
C19_WaitUntilReadyTerminates ==
    /\ [](/\ ui.pc \in WaitPcs \cup {"wret"} => Len(ui.obs) <= ui.tries
          /\ ui.pc \in WaitPcs => AllFalse(ui.obs)
          /\ ui.pc = "wret"
             => IF ui.ret
                THEN /\ ui.obs /= <<>> /\ ui.obs[Len(ui.obs)]
                     /\ AllFalse(SubSeq(ui.obs, 1, Len(ui.obs) - 1))
                ELSE Len(ui.obs) = ui.tries /\ AllFalse(ui.obs))
    /\ [][(ui.pc \in WaitPcs \cup {"wret"} /\ ui' /= ui)
          => UNCHANGED <<connected, ready, resolved_post_url, stop, thread,
                         last_event, pending, waiter, callbacks, canceled, loop>>]_vars
    /\ (ui.pc \in WaitPcs) ~> (ui.pc = "wret")

\* C19 witness: a call with tries = 2 has returned True at its second poll
C19_Witness ==
    ui.pc = "wret" /\ ui.tries = 2 /\ ui.ret /\ ui.obs = <<FALSE, TRUE>>

\* the positions of _run that dispatch a parsed message/progress event
DispatchPcs == {"chk83", "w87", "cb98"}

\* C20: a step that dispatches an event with id X leaves the waiter of every
\* call with another id as it was, adds at most one callback invocation, made
\* with this event for the callback registered for X, and leaves the keys and
\* values of _pending and _callbacks alone; when X is neither pending nor
\* subscribed, the dispatch changes nothing but _last_event.
C20_DispatchTouchesOnlyItsId ==
    [][\A t \in Threads :
         (loop[t].pc \in DispatchPcs /\ loop'[t] /= loop[t])
         => LET X == loop[t].ev.payload.id
                new == SubSeq(hist'.cb_log, Len(hist.cb_log) + 1, Len(hist'.cb_log))
            IN  /\ pending' = pending
                /\ callbacks' = callbacks
                /\ canceled' = canceled
                /\ \A c \in Callers :
                      caller[c].id /= X
                      => waiter'[c] = waiter[c] /\ hist'.sets[c] = hist.sets[c]
                /\ SubSeq(hist'.cb_log, 1, Len(hist.cb_log)) = hist.cb_log
                /\ Len(new) <= 1
                /\ \A i \in DOMAIN new :
                      /\ new[i].payload.id = X
                      /\ X \in DOMAIN callbacks /\ new[i].cb = callbacks[X]
                /\ (X \notin DOMAIN pending /\ X \notin DOMAIN callbacks)
                   => /\ waiter' = waiter
                      /\ hist' = hist
                      /\ UNCHANGED <<connected, ready, resolved_post_url, stop, thread>>
      ]_vars

\* C20 witness: with two calls pending, an event has released one of them and
\* the other is still pending, untouched
C20_Witness ==
    \E c, d \in Callers :
        /\ c /= d
        /\ \E j \in DOMAIN hist.sets[c] : hist.sets[c][j].by = "event"
        /\ caller[d].id \in DOMAIN pending /\ caller[d].id \in posted
        /\ waiter[d] = NewWaiter

====
